---- MODULE Spec2Model ----
(***************************************************************************)
(* Model of langchain_community/chat_models/oci_generative_ai.py:          *)
(* the two provider strategies (CohereProvider, MetaProvider), the request *)
(* builder (_prepare_request) and the response normaliser (_generate,      *)
(* _stream) of ChatOCIGenAI, and the tool-description cleaning helper.     *)
(*                                                                         *)
(* Python dicts are functions over a set of string keys (<<>> is {}),      *)
(* Optional values are sequences of length 0 (None) or 1, texts that are   *)
(* searched or concatenated are sequences of characters.                   *)
(***************************************************************************)
EXTENDS Integers, Sequences, FiniteSets, TLC

VARIABLES
    messages,       \* the conversation handed to messages_to_oci_params
    call_provider,  \* provider the last params call was dispatched to
    call_kwargs,    \* **kwargs of the last params call
    oci_result,     \* outcome of the last params call: [err, params]
    provider,       \* ChatOCIGenAI: provider selected for the model
    is_stream,      \* ChatOCIGenAI.is_stream
    model_kwargs,   \* ChatOCIGenAI.model_kwargs (Optional dict)
    init_model_kwargs, \* model_kwargs as passed to the constructor
    client,         \* the backend stub: [text, events, tool_calls]
    call,           \* arguments of the last _generate/_stream call
    request,        \* chat params of the last request built (Optional)
    result,         \* what the last _generate call returned or raised
    uuid_counter,   \* number of uuid4() values drawn so far
    issued_ids,     \* every identifier put on a returned tool-call record
    gen_pc,         \* position of the _stream generator
    gen_events,     \* events the backend iterator has not delivered yet
    gen_delta,      \* delta of the event being processed
    callbacks,      \* deltas passed to run_manager.on_llm_new_token
    chunks,         \* chunks yielded to the consumer
    tool_name,      \* name of the tool whose description is cleaned
    description,    \* the tool description as composed by the caller
    cleaned,        \* the description after one cleaning (Optional)
    recleaned,      \* the cleaned description cleaned again (Optional)
    tools,          \* the tool sequence a caller has put together
    bind_call,      \* the last tool conversion or binding: [op, tool, kwargs]
    bind_result     \* what that call returned or raised

varsParams == <<messages, call_provider, call_kwargs, oci_result>>

varsChat == <<provider, is_stream, model_kwargs, init_model_kwargs, client,
              call, request, result, uuid_counter, issued_ids,
              gen_pc, gen_events, gen_delta, callbacks, chunks>>

varsDesc == <<tool_name, description, cleaned, recleaned>>

varsBind == <<tools, bind_call, bind_result>>

vars == <<varsParams, varsChat, varsDesc, varsBind>>

----------------------------------------------------------------------------
(* Bounds *)

MaxMsgs == 4
MaxUuids == 8
MaxStops == 2
MaxEvents == 3
MaxPieces == 3
MaxTools == 3

----------------------------------------------------------------------------
(* Python helpers *)

None == <<>>
Some(x) == <<x>>
EmptyDict == <<>>

Get(d, k, default) == IF k \in DOMAIN d THEN d[k] ELSE default

Merge(a, b) ==
    [k \in (DOMAIN a) \cup (DOMAIN b) |-> IF k \in DOMAIN b THEN b[k] ELSE a[k]]

Last(s) == s[Len(s)]

Reverse(s) == [i \in 1..Len(s) |-> s[Len(s) + 1 - i]]

----------------------------------------------------------------------------
(* langchain_core message types, as the provider code inspects them *)

ToolCall(id, name, args) == [id |-> id, name |-> name, args |-> args]

HumanMessage(c) ==
    [type |-> "human", content |-> c, tool_calls |-> <<>>, tool_call_id |-> 0]
SystemMessage(c) ==
    [type |-> "system", content |-> c, tool_calls |-> <<>>, tool_call_id |-> 0]
AIMessage(c, tcs) ==
    [type |-> "ai", content |-> c, tool_calls |-> tcs, tool_call_id |-> 0]
ToolMessage(c, id) ==
    [type |-> "tool", content |-> c, tool_calls |-> <<>>, tool_call_id |-> id]
ChatMessage(c) ==
    [type |-> "chat", content |-> c, tool_calls |-> <<>>, tool_call_id |-> 0]

tc1 == ToolCall(1, "f", "x1")
tc2 == ToolCall(2, "g", "x2")

\* The messages a caller may put into a conversation.
MessageInventory ==
    { HumanMessage("q"), SystemMessage("s"), ChatMessage("c"),
      AIMessage("a", <<>>), AIMessage("", <<tc1>>), AIMessage("", <<tc2>>),
      AIMessage("b", <<tc1, tc2>>),
      ToolMessage("r1", 1), ToolMessage("r2", 2), ToolMessage("r3", 3) }

----------------------------------------------------------------------------
(* CohereProvider *)

CohereProvider_get_role_lenient(message) ==
    IF message.type = "human" THEN "USER"
    ELSE IF message.type = "ai" THEN "CHATBOT"
    ELSE IF message.type = "system" THEN "SYSTEM"
    ELSE IF message.type = "tool" THEN "TOOL"
    ELSE "USER"

CohereProvider_get_role(message) ==
    IF message.type = "human" THEN "USER"
    ELSE IF message.type = "ai" THEN "CHATBOT"
    ELSE IF message.type = "system" THEN "SYSTEM"
    ELSE IF message.type = "tool" THEN "TOOL"
    ELSE "ValueError"

oci_tool_call(name, parameters) == [name |-> name, parameters |-> parameters]

\* the list comprehension of lines 202-209
RECURSIVE HistoryToolCalls(_)
HistoryToolCalls(tcs) ==
    IF tcs = <<>> THEN <<>>
    ELSE <<oci_tool_call(Head(tcs).name, Head(tcs).args)>>
             \o HistoryToolCalls(Tail(tcs))

SkipHistoryEntry_inverted(msg, is_force_single_step) ==
    msg.tool_calls # <<>> /\ ~is_force_single_step

\* line 200: `if msg.tool_calls and is_force_single_step: continue`
SkipHistoryEntry(msg, is_force_single_step) ==
    msg.tool_calls # <<>> /\ is_force_single_step

\* lines 192-216: the loop over messages[:-1]; msgs is what is left of it,
\* hist the history so far.  The result is [err, hist].
RECURSIVE CohereHistory(_, _, _)
CohereHistory(msgs, is_force_single_step, hist) ==
    IF msgs = <<>> THEN [err |-> "none", hist |-> hist]
    ELSE LET msg == Head(msgs)
             role == CohereProvider_get_role(msg)
         IN  IF role = "ValueError" THEN [err |-> "ValueError", hist |-> <<>>]
             ELSE IF role = "USER" \/ role = "SYSTEM" THEN
                 CohereHistory(Tail(msgs), is_force_single_step,
                     Append(hist, [role |-> role, message |-> msg.content]))
             ELSE IF role = "CHATBOT" THEN
                 IF SkipHistoryEntry(msg, is_force_single_step) THEN
                     CohereHistory(Tail(msgs), is_force_single_step, hist)
                 ELSE
                     CohereHistory(Tail(msgs), is_force_single_step,
                         Append(hist,
                             [role |-> role,
                              message |-> IF msg.content # "" THEN msg.content
                                          ELSE " ",
                              tool_calls |->
                                  IF msg.tool_calls # <<>>
                                  THEN Some(HistoryToolCalls(msg.tool_calls))
                                  ELSE None]))
             ELSE CohereHistory(Tail(msgs), is_force_single_step, hist)

\* lines 219-224: walk the messages in reverse up to and including the most
\* recent HumanMessage; rev is the reversed list still to walk.
RECURSIVE CollectTurn(_, _)
CollectTurn(rev, acc) ==
    IF rev = <<>> THEN acc
    ELSE IF Head(rev).type = "human" THEN Append(acc, Head(rev))
    ELSE CollectTurn(Tail(rev), Append(acc, Head(rev)))

current_chat_turn_messages_whole(msgs) == msgs

current_chat_turn_messages(msgs) == Reverse(CollectTurn(Reverse(msgs), <<>>))

IsToolCallingAI(m) == m.type = "ai" /\ m.tool_calls # <<>>

IsAI(m) == m.type = "ai"

previous_ai_msgs_unfiltered(turn) == SelectSeq(turn, IsAI)

\* lines 230-234
previous_ai_msgs(turn) == SelectSeq(turn, IsToolCallingAI)

\* line 236
previous_ai_msg(turn) == Last(previous_ai_msgs(turn))

\* lines 237-247: one tool result per tool call whose id matches
RECURSIVE MatchToolCalls(_, _)
MatchToolCalls(tcs, tool_message) ==
    IF tcs = <<>> THEN <<>>
    ELSE (IF Head(tcs).id = tool_message.tool_call_id
          THEN << [call |-> oci_tool_call(Head(tcs).name, Head(tcs).args),
                   outputs |-> << [output |-> tool_message.content] >>] >>
          ELSE <<>>)
         \o MatchToolCalls(Tail(tcs), tool_message)

\* lines 226-247: the loop over the current turn; rest is what is left of it
RECURSIVE CohereToolResults(_, _)
CohereToolResults(rest, turn) ==
    IF rest = <<>> THEN <<>>
    ELSE (IF Head(rest).type = "tool" /\ previous_ai_msgs(turn) # <<>>
          THEN MatchToolCalls(previous_ai_msg(turn).tool_calls, Head(rest))
          ELSE <<>>)
         \o CohereToolResults(Tail(rest), turn)

oci_tool_results(msgs) ==
    LET turn == current_chat_turn_messages(msgs)
    IN  CohereToolResults(turn, turn)

message_str_last(results, msgs) == Last(msgs).content

\* line 252: `"" if oci_tool_results else messages[-1].content`
message_str(results, msgs) ==
    IF results # <<>> THEN "" ELSE Last(msgs).content

\* lines 187-261.  messages[:-1] of an empty list is empty and messages[-1]
\* raises IndexError.
CohereProvider_messages_to_oci_params(msgs, kwargs) ==
    LET is_force_single_step == Get(kwargs, "is_force_single_step", FALSE)
        h == CohereHistory(SubSeq(msgs, 1, Len(msgs) - 1),
                           is_force_single_step, <<>>)
        results == oci_tool_results(msgs)
    IN  IF h.err # "none" THEN [err |-> h.err, params |-> EmptyDict]
        ELSE IF msgs = <<>> THEN [err |-> "IndexError", params |-> EmptyDict]
        ELSE IF results = <<>> THEN
            [err |-> "none",
             params |-> [message |-> message_str(results, msgs),
                         chat_history |-> h.hist,
                         api_format |-> "COHERE"]]
        ELSE
            [err |-> "none",
             params |-> [message |-> message_str(results, msgs),
                         chat_history |-> h.hist,
                         tool_results |-> results,
                         api_format |-> "COHERE"]]

----------------------------------------------------------------------------
(* MetaProvider *)

MetaProvider_get_role(message) ==
    IF message.type = "human" THEN "USER"
    ELSE IF message.type = "ai" THEN "ASSISTANT"
    ELSE IF message.type = "system" THEN "SYSTEM"
    ELSE "ValueError"

\* lines 379-384
RECURSIVE MetaMessages(_, _)
MetaMessages(msgs, acc) ==
    IF msgs = <<>> THEN [err |-> "none", msgs |-> acc]
    ELSE LET role == MetaProvider_get_role(Head(msgs))
         IN  IF role = "ValueError" THEN [err |-> "ValueError", msgs |-> <<>>]
             ELSE MetaMessages(Tail(msgs),
                      Append(acc, [role |-> role,
                                   content |-> <<[text |-> Head(msgs).content]>>]))

MetaProvider_messages_to_oci_params(msgs, kwargs) ==
    LET m == MetaMessages(msgs, <<>>)
    IN  IF m.err # "none" THEN [err |-> m.err, params |-> EmptyDict]
        ELSE [err |-> "none",
              params |-> [messages |-> m.msgs,
                          api_format |-> "GENERIC",
                          top_k |-> -1]]

----------------------------------------------------------------------------
(* Provider dispatch *)

Providers == {"cohere", "meta"}

\* ChatOCIGenAI._provider_map / self._provider.messages_to_oci_params
messages_to_oci_params(prov, msgs, kwargs) ==
    IF prov = "cohere"
    THEN CohereProvider_messages_to_oci_params(msgs, kwargs)
    ELSE MetaProvider_messages_to_oci_params(msgs, kwargs)

stop_sequence_key(prov) ==
    IF prov = "cohere" THEN "stop_sequences" ELSE "stop"

Uncalled == [err |-> "uncalled", params |-> EmptyDict]

ParamKwargs ==
    { EmptyDict,
      [is_force_single_step |-> TRUE],
      [is_force_single_step |-> FALSE] }

\* no description is being cleaned
DescIdle ==
    /\ tool_name = <<"f">>
    /\ description = <<>>
    /\ cleaned = None
    /\ recleaned = None

NoBindCall == [op |-> "none", tool |-> None, kwargs |-> EmptyDict]

Unbound == [err |-> "nocall", tool |-> None, bound |-> None]

\* no tool is being converted or bound
BindIdle ==
    /\ tools = <<>>
    /\ bind_call = NoBindCall
    /\ bind_result = Unbound

NoParamsCall ==
    /\ messages = <<>>
    /\ call_provider = "cohere"
    /\ call_kwargs = EmptyDict
    /\ oci_result = Uncalled

----------------------------------------------------------------------------
(* Texts: sequences of characters *)

SeqsUpTo(S, n) == UNION {[1..k -> S] : k \in 0..n}

RECURSIVE Concat(_)
Concat(ss) == IF ss = <<>> THEN <<>> ELSE Head(ss) \o Concat(Tail(ss))

----------------------------------------------------------------------------
(* Response side of the providers *)

\* response.data.chat_response.text / .choices[0].message.content[0].text
chat_response_to_text(prov, response) == response.text

CohereProvider_chat_stream_to_text_any(event_data) ==
    IF "text" \in DOMAIN event_data THEN event_data["text"] ELSE <<>>

\* lines 152-156
CohereProvider_chat_stream_to_text(event_data) ==
    IF "text" \in DOMAIN event_data /\ "finishReason" \notin DOMAIN event_data
    THEN event_data["text"]
    ELSE <<>>

\* lines 353-357
MetaProvider_chat_stream_to_text(event_data) ==
    IF "message" \in DOMAIN event_data
    THEN event_data["message"]["content"][1]["text"]
    ELSE <<>>

chat_stream_to_text(prov, event_data) ==
    IF prov = "cohere"
    THEN CohereProvider_chat_stream_to_text(event_data)
    ELSE MetaProvider_chat_stream_to_text(event_data)

\* uuid.uuid4().hex: the value after `drawn` earlier draws
uuid4(drawn) == drawn + 1

\* json.dumps(tool_call.parameters)
json_dumps(v) == <<"json", v>>

\* lines 71-92
RECURSIVE _format_oci_tool_calls(_, _)
_format_oci_tool_calls(tool_calls, drawn) ==
    IF tool_calls = <<>> THEN <<>>
    ELSE << [id |-> uuid4(drawn),
             function |-> [name |-> Head(tool_calls).name,
                           arguments |-> json_dumps(Head(tool_calls).parameters)],
             type |-> "function"] >>
         \o _format_oci_tool_calls(Tail(tool_calls), drawn + 1)

\* lines 158-173 and 359-363 (the opaque metadata fields are left out)
chat_generation_info(prov, response, drawn) ==
    IF prov = "cohere" THEN
        IF response.tool_calls # <<>>
        THEN [finish_reason |-> "COMPLETE",
              tool_calls |-> _format_oci_tool_calls(response.tool_calls, drawn)]
        ELSE [finish_reason |-> "COMPLETE"]
    ELSE [finish_reason |-> "stop", time_created |-> "t"]

_convert_oci_tool_call_to_langchain_reused(tool_call, drawn) ==
    ToolCall(uuid4(0), tool_call.name, tool_call.parameters)

\* lines 95-98
_convert_oci_tool_call_to_langchain(tool_call, drawn) ==
    ToolCall(uuid4(drawn), tool_call.name, tool_call.parameters)

\* lines 618-624
RECURSIVE ConvertToolCalls(_, _)
ConvertToolCalls(tool_calls, drawn) ==
    IF tool_calls = <<>> THEN <<>>
    ELSE << _convert_oci_tool_call_to_langchain(Head(tool_calls), drawn) >>
         \o ConvertToolCalls(Tail(tool_calls), drawn + 1)

RECURSIVE IdsOf(_)
IdsOf(records) ==
    IF records = <<>> THEN <<>> ELSE <<Head(records).id>> \o IdsOf(Tail(records))

----------------------------------------------------------------------------
(* Helpers of the repository that live outside this file *)

OccursAt(text, tok, i) ==
    /\ i + Len(tok) - 1 <= Len(text)
    /\ SubSeq(text, i, i + Len(tok) - 1) = tok

\* langchain_community.llms.utils.enforce_stop_tokens: cut the text at the
\* first occurrence of any stop token
enforce_stop_tokens(text, stop) ==
    LET hits == {i \in 1..Len(text) :
                    \E n \in 1..Len(stop) : OccursAt(text, stop[n], i)}
    IN  IF hits = {} THEN text
        ELSE SubSeq(text, 1, (CHOOSE i \in hits : \A j \in hits : i <= j) - 1)

\* langchain_core generate_from_stream: concatenate the chunks into one
\* final message
generate_from_stream(chunk_texts) ==
    [err |-> "none", content |-> Concat(chunk_texts),
     tool_calls |-> <<>>, additional_kwargs |-> EmptyDict]

----------------------------------------------------------------------------
(* ChatOCIGenAI *)

chat_params_kwargs_last(_model_kwargs, kwargs, oci_params) ==
    Merge(Merge(_model_kwargs, oci_params), kwargs)

\* line 515: {**_model_kwargs, **kwargs, **oci_params}
chat_params(_model_kwargs, kwargs, oci_params) ==
    Merge(Merge(_model_kwargs, kwargs), oci_params)

\* lines 505-515.  `self.model_kwargs or {}` is the configured dict itself
\* unless that is None or empty, so the assignment of line 513 writes into
\* the configured dict.  The result is [err, chat_params, model_kwargs].
_prepare_request(prov, mk, msgs, stop, stream, kwargs) ==
    LET p == messages_to_oci_params(prov, msgs, kwargs)
        oci_params ==
            Merge(p.params,
                  [is_force_single_step |-> Get(kwargs, "is_force_single_step", FALSE),
                   is_stream |-> stream])
        aliased == mk # None /\ mk[1] # EmptyDict
        base == IF aliased THEN mk[1] ELSE EmptyDict
        _model_kwargs ==
            IF stop # None
            THEN Merge(base, (stop_sequence_key(prov) :> stop[1]))
            ELSE base
    IN  IF p.err # "none"
        THEN [err |-> p.err, chat_params |-> EmptyDict, model_kwargs |-> mk]
        ELSE [err |-> "none",
              chat_params |-> chat_params(_model_kwargs, kwargs, oci_params),
              model_kwargs |-> IF aliased THEN Some(_model_kwargs) ELSE mk]

content_unenforced(text, stop) == text

\* lines 604-607
content_after_stop(text, stop) ==
    IF stop # None THEN enforce_stop_tokens(text, stop[1]) ELSE text

\* lines 648-650, for a whole event sequence
RECURSIVE StreamDeltas(_, _)
StreamDeltas(prov, events) ==
    IF events = <<>> THEN <<>>
    ELSE <<chat_stream_to_text(prov, Head(events))>>
         \o StreamDeltas(prov, Tail(events))

NoCall ==
    [op |-> "none", messages |-> <<>>, stop |-> None, kwargs |-> EmptyDict,
     run_manager |-> FALSE, model_kwargs |-> None]

NoResult ==
    [err |-> "nocall", content |-> <<>>, tool_calls |-> <<>>,
     additional_kwargs |-> EmptyDict]

Raised(e) ==
    [err |-> e, content |-> <<>>, tool_calls |-> <<>>,
     additional_kwargs |-> EmptyDict]

GenIdle ==
    /\ gen_pc = "none"
    /\ gen_events = <<>>
    /\ gen_delta = <<>>
    /\ callbacks = <<>>
    /\ chunks = <<>>

\* no chat model in use (the params builder is exercised on its own)
ChatIdle ==
    /\ provider = "cohere"
    /\ is_stream = FALSE
    /\ model_kwargs = None
    /\ init_model_kwargs = None
    /\ client = [text |-> <<>>, events |-> <<>>, tool_calls |-> <<>>]
    /\ call = NoCall
    /\ request = None
    /\ result = NoResult
    /\ uuid_counter = 0
    /\ issued_ids = <<>>
    /\ GenIdle

\* the caller is not inside a generator step
CallerRuns == gen_pc \in {"none", "suspended", "done"}

UuidsNeeded == 2 * Len(client.tool_calls)

\* lines 568-636: one whole _generate call.  With is_stream the generator
\* of _stream is run to its end by generate_from_stream.
Generate(In) ==
    /\ CallerRuns
    /\ In.once => call = NoCall
    /\ uuid_counter + UuidsNeeded <= MaxUuids
    /\ \E msgs \in In.convs, stop \in In.stops, kw \in In.kwargs,
          rm \in In.managers :
        LET prep == _prepare_request(provider, model_kwargs, msgs, stop,
                                     is_stream, kw)
            deltas == StreamDeltas(provider, client.events)
            info == chat_generation_info(provider, client, uuid_counter)
            has_calls == "tool_calls" \in DOMAIN info
            drawn == IF has_calls THEN uuid_counter + Len(client.tool_calls)
                     ELSE uuid_counter
            tool_calls == IF has_calls
                          THEN ConvertToolCalls(client.tool_calls, drawn)
                          ELSE <<>>
        IN  /\ call' = [op |-> "_generate", messages |-> msgs, stop |-> stop,
                        kwargs |-> kw, run_manager |-> rm,
                        model_kwargs |-> model_kwargs]
            /\ model_kwargs' = prep.model_kwargs
            /\ gen_events' = <<>>
            /\ gen_delta' = <<>>
            /\ IF prep.err # "none" THEN
                   /\ request' = None
                   /\ result' = Raised(prep.err)
                   /\ gen_pc' = "none"
                   /\ callbacks' = <<>>
                   /\ chunks' = <<>>
                   /\ UNCHANGED <<uuid_counter, issued_ids>>
               ELSE IF is_stream THEN
                   /\ request' = Some(prep.chat_params)
                   /\ result' = generate_from_stream(deltas)
                   /\ gen_pc' = "done"
                   /\ callbacks' = IF rm THEN deltas ELSE <<>>
                   /\ chunks' = deltas
                   /\ UNCHANGED <<uuid_counter, issued_ids>>
               ELSE
                   /\ request' = Some(prep.chat_params)
                   /\ result' =
                          [err |-> "none",
                           content |-> content_after_stop(
                               chat_response_to_text(provider, client), stop),
                           tool_calls |-> tool_calls,
                           additional_kwargs |-> info]
                   /\ gen_pc' = "none"
                   /\ callbacks' = <<>>
                   /\ chunks' = <<>>
                   /\ uuid_counter' = drawn + Len(tool_calls)
                   /\ issued_ids' = issued_ids
                          \o (IF has_calls THEN IdsOf(info["tool_calls"]) ELSE <<>>)
                          \o IdsOf(tool_calls)
    /\ UNCHANGED <<provider, is_stream, init_model_kwargs, client,
                   varsParams, varsDesc, varsBind>>

\* lines 638-644: calling _stream only creates the generator
StreamCall(In) ==
    /\ CallerRuns
    /\ In.once => call = NoCall
    /\ \E msgs \in In.convs, stop \in In.stream_stops, kw \in In.kwargs,
          rm \in In.managers :
          call' = [op |-> "_stream", messages |-> msgs, stop |-> stop,
                   kwargs |-> kw, run_manager |-> rm,
                   model_kwargs |-> model_kwargs]
    /\ gen_pc' = "created"
    /\ gen_events' = <<>>
    /\ gen_delta' = <<>>
    /\ callbacks' = <<>>
    /\ chunks' = <<>>
    /\ request' = None
    /\ result' = NoResult
    /\ UNCHANGED <<provider, is_stream, model_kwargs, init_model_kwargs, client,
                   uuid_counter, issued_ids, varsParams, varsDesc, varsBind>>

\* lines 645-646: the first pull runs the generator body up to the loop
StreamStart ==
    /\ gen_pc = "created"
    /\ LET prep == _prepare_request(provider, model_kwargs, call.messages,
                                    call.stop, TRUE, call.kwargs)
       IN  /\ model_kwargs' = prep.model_kwargs
           /\ IF prep.err # "none" THEN
                  /\ request' = None
                  /\ result' = Raised(prep.err)
                  /\ gen_pc' = "done"
                  /\ gen_events' = <<>>
              ELSE
                  /\ request' = Some(prep.chat_params)
                  /\ result' = NoResult
                  /\ gen_pc' = "loop"
                  /\ gen_events' = client.events
    /\ UNCHANGED <<provider, is_stream, init_model_kwargs, client, call,
                   uuid_counter, issued_ids, gen_delta, callbacks, chunks,
                   varsParams, varsDesc, varsBind>>

\* the consumer asks the suspended generator for the next chunk
StreamPull ==
    /\ gen_pc = "suspended"
    /\ gen_pc' = "loop"
    /\ UNCHANGED <<provider, is_stream, model_kwargs, init_model_kwargs, client,
                   call, request, result, uuid_counter, issued_ids,
                   gen_events, gen_delta, callbacks, chunks,
                   varsParams, varsDesc, varsBind>>

step_after_read_silent(run_manager) == "yield"

\* line 651: `if run_manager:`
step_after_read(run_manager) == IF run_manager THEN "notify" ELSE "yield"

\* lines 648-650: the loop takes one event, or ends with the events
StreamRead ==
    /\ gen_pc = "loop"
    /\ IF gen_events = <<>> THEN
           /\ gen_pc' = "done"
           /\ UNCHANGED <<gen_events, gen_delta>>
       ELSE
           /\ gen_delta' = Some(chat_stream_to_text(provider, Head(gen_events)))
           /\ gen_events' = Tail(gen_events)
           /\ gen_pc' = step_after_read(call.run_manager)
    /\ UNCHANGED <<provider, is_stream, model_kwargs, init_model_kwargs, client,
                   call, request, result, uuid_counter, issued_ids,
                   callbacks, chunks, varsParams, varsDesc, varsBind>>

\* line 652
StreamNotify ==
    /\ gen_pc = "notify"
    /\ callbacks' = Append(callbacks, gen_delta[1])
    /\ gen_pc' = "yield"
    /\ UNCHANGED <<provider, is_stream, model_kwargs, init_model_kwargs, client,
                   call, request, result, uuid_counter, issued_ids,
                   gen_events, gen_delta, chunks, varsParams, varsDesc, varsBind>>

\* line 653
StreamYield ==
    /\ gen_pc = "yield"
    /\ chunks' = Append(chunks, gen_delta[1])
    /\ gen_delta' = <<>>
    /\ gen_pc' = "suspended"
    /\ UNCHANGED <<provider, is_stream, model_kwargs, init_model_kwargs, client,
                   call, request, result, uuid_counter, issued_ids,
                   gen_events, callbacks, varsParams, varsDesc, varsBind>>

----------------------------------------------------------------------------
(* Inputs of the chat model *)

Conv1 == << HumanMessage("q") >>
Conv2 == << HumanMessage("q"), AIMessage("", <<tc1>>), ToolMessage("r1", 1) >>

StopTokens == { <<"a">>, <<"b">>, <<"a", "b">>, <<"b", "a">>, <<"b", "b">> }

StopLists == SeqsUpTo(StopTokens, MaxStops)

AllStops == {None} \cup {Some(l) : l \in StopLists}

FewStops == {None, Some(<<>>), Some(<< <<"b">> >>), Some(<< <<"a">>, <<"b">> >>)}

KwargsInventory ==
    { EmptyDict,
      [temperature |-> 5, is_stream |-> TRUE],
      [is_force_single_step |-> TRUE, top_k |-> 3],
      [stop_sequences |-> << <<"a">> >>, stop |-> << <<"a">> >>] }

ModelKwargsInventory == {None, Some(EmptyDict), Some([temperature |-> 7])}

\* stream events as the backend of each provider sends them
BackendEvents(prov) ==
    IF prov = "cohere"
    THEN { [text |-> <<"a">>], [text |-> <<"b">>],
           [text |-> <<"a", "b">>, finishReason |-> "COMPLETE"],
           [finishReason |-> "COMPLETE"] }
    ELSE { [message |-> [content |-> << [text |-> <<"a">>] >>]],
           [message |-> [content |-> << [text |-> <<"b">>] >>]],
           [finishReason |-> "stop"] }

\* the delta a backend event carries for display
BackendEventDelta(ev) ==
    IF "finishReason" \in DOMAIN ev THEN <<>>
    ELSE IF "text" \in DOMAIN ev THEN ev["text"]
    ELSE IF "message" \in DOMAIN ev THEN ev["message"]["content"][1]["text"]
    ELSE <<>>

\* the text of the non-streaming response of a stub that streams `events`
StubText(events) ==
    Concat([i \in 1..Len(events) |-> BackendEventDelta(events[i])])

EventScripts(prov) == SeqsUpTo(BackendEvents(prov), MaxEvents) \ {<<>>}

BackendToolCalls ==
    { <<>>,
      << [name |-> "f", parameters |-> "x1"] >>,
      << [name |-> "f", parameters |-> "x1"], [name |-> "f", parameters |-> "x1"] >> }

FixedScript(prov) ==
    IF prov = "cohere"
    THEN << [text |-> <<"a">>], [text |-> <<"b">>],
            [text |-> <<"a", "b">>, finishReason |-> "COMPLETE"] >>
    ELSE << [message |-> [content |-> << [text |-> <<"a">>] >>]],
            [message |-> [content |-> << [text |-> <<"b">>] >>]],
            [finishReason |-> "stop"] >>

ChatFresh ==
    /\ init_model_kwargs = model_kwargs
    /\ call = NoCall
    /\ request = None
    /\ result = NoResult
    /\ uuid_counter = 0
    /\ issued_ids = <<>>
    /\ GenIdle

----------------------------------------------------------------------------
(* Specification of request building: a chat model with any configuration  *)
(* serves calls with varying stop lists and kwargs against a fixed stub.   *)

RequestInputs ==
    [convs |-> {Conv1, Conv2}, stops |-> FewStops, stream_stops |-> FewStops,
     kwargs |-> KwargsInventory, managers |-> {TRUE}, once |-> FALSE]

InitRequest ==
    /\ NoParamsCall
    /\ DescIdle
    /\ BindIdle
    /\ provider \in Providers
    /\ is_stream \in BOOLEAN
    /\ model_kwargs \in ModelKwargsInventory
    /\ \E tcs \in BackendToolCalls :
          client = [text |-> <<"a", "b">>, events |-> FixedScript(provider),
                    tool_calls |-> IF provider = "cohere" THEN tcs ELSE <<>>]
    /\ ChatFresh

NextRequest ==
    \/ Generate(RequestInputs)
    \/ StreamCall(RequestInputs)
    \/ StreamStart
    \/ StreamPull
    \/ StreamRead
    \/ StreamNotify
    \/ StreamYield

SpecRequest == InitRequest /\ [][NextRequest]_vars

----------------------------------------------------------------------------
(* Specification of the response text: a chat model without model kwargs   *)
(* serves one call against a stub with any event script, whose response    *)
(* text is the concatenation of the deltas it streams.                     *)

TextInputs ==
    [convs |-> {Conv1}, stops |-> AllStops,
     stream_stops |-> {None, Some(<< <<"b">> >>)},
     kwargs |-> {EmptyDict}, managers |-> BOOLEAN, once |-> TRUE]

InitText ==
    /\ NoParamsCall
    /\ DescIdle
    /\ BindIdle
    /\ provider \in Providers
    /\ is_stream \in BOOLEAN
    /\ model_kwargs = None
    /\ \E es \in EventScripts(provider) :
          client = [text |-> StubText(es), events |-> es, tool_calls |-> <<>>]
    /\ ChatFresh

NextText ==
    \/ Generate(TextInputs)
    \/ StreamCall(TextInputs)
    \/ StreamStart
    \/ StreamPull
    \/ StreamRead
    \/ StreamNotify
    \/ StreamYield

SpecText == InitText /\ [][NextText]_vars

----------------------------------------------------------------------------
(* _remove_signature_from_tool_description.  A description is a sequence   *)
(* of characters; "nl" is the newline and "Args:" stands for that literal. *)

IsWord(c) == c \in {"f", "g"}

IsSpace(c) == c \in {" ", "nl"}

At(d, i) == IF i \in 1..Len(d) THEN d[i] ELSE "EOF"

Least(S) == CHOOSE i \in S : \A j \in S : i <= j

Greatest(S) == CHOOSE i \in S : \A j \in S : i >= j

\* ` -(?:> \w+? -)? ` after the closing parenthesis at j: the index of the
\* last character matched, 0 when there is no match
SignatureTailEnd(d, j) ==
    IF At(d, j + 1) = " " /\ At(d, j + 2) = "-" THEN
        IF At(d, j + 3) = ">" /\ At(d, j + 4) = " " THEN
            LET ws == {w \in 1..Len(d) :
                          /\ \A k \in 1..w : IsWord(At(d, j + 4 + k))
                          /\ At(d, j + 5 + w) = " "
                          /\ At(d, j + 6 + w) = "-"
                          /\ At(d, j + 7 + w) = " "}
            IN  IF ws # {} THEN j + 7 + Least(ws) ELSE 0
        ELSE IF At(d, j + 3) = " " THEN j + 3
        ELSE 0
    ELSE 0

\* line 66: the match of rf"^{name}\(.*?\) -(?:> \w+? -)? " at the start of
\* the description: the index of its last character, 0 when there is none
SignatureEnd(name, d) ==
    IF /\ Len(d) > Len(name)
       /\ SubSeq(d, 1, Len(name)) = name
       /\ d[Len(name) + 1] = "("
    THEN LET js == {j \in (Len(name) + 2)..Len(d) :
                       /\ d[j] = ")"
                       /\ \A k \in (Len(name) + 2)..(j - 1) : d[k] # "nl"
                       /\ SignatureTailEnd(d, j) # 0}
         IN  IF js = {} THEN 0 ELSE SignatureTailEnd(d, Least(js))
    ELSE 0

\* line 66: re.sub(..., "", description)
strip_signature(name, d) ==
    LET e == SignatureEnd(name, d)
    IN  IF e = 0 THEN d ELSE SubSeq(d, e + 1, Len(d))

\* positions where r"(?s)(?:\n?\n\s*?)?Args:.*$" matches
ArgsMatchStarts(d) ==
    {q \in 1..Len(d) :
        \/ d[q] = "Args:"
        \/ /\ d[q] = "nl"
           /\ \E p \in (q + 1)..Len(d) :
                 /\ d[p] = "Args:"
                 /\ \A k \in (q + 1)..(p - 1) : IsSpace(d[k])}

args_match_start_last(d) == Greatest(ArgsMatchStarts(d))

\* re.sub replaces the leftmost match, which runs to the end of the text
args_match_start(d) == Least(ArgsMatchStarts(d))

\* line 67
strip_args(d) ==
    IF ArgsMatchStarts(d) = {} THEN d
    ELSE SubSeq(d, 1, args_match_start(d) - 1)

\* lines 60-68
_remove_signature_from_tool_description(name, d) ==
    strip_args(strip_signature(name, d))

----------------------------------------------------------------------------
(* Specification of description cleaning: a caller composes a description  *)
(* out of pieces, cleans it (convert_to_oci_tool, lines 273-275) and       *)
(* cleans the result again.                                                *)

ToolNames == { <<"f">>, <<"g">> }

DescriptionPieces ==
    { <<"f">>, <<"g">>, <<"(">>, <<")">>, <<" ">>, <<"-">>, <<">">>, <<"nl">>,
      <<"Args:">>,
      <<"f", "(", ")", " ", "-", " ">>,
      <<"f", "(", "g", ")", " ", "-", ">", " ", "g", " ", "-", " ">>,
      <<"nl", "nl", " ", "Args:", "g">> }

InitDesc ==
    /\ NoParamsCall
    /\ ChatIdle
    /\ BindIdle
    /\ tool_name \in ToolNames
    /\ description = <<>>
    /\ cleaned = None
    /\ recleaned = None

\* the caller writes the next piece of the description
ComposeDescription ==
    /\ cleaned = None
    /\ Len(description) < MaxPieces
    /\ \E piece \in DescriptionPieces : description' = Append(description, piece)
    /\ UNCHANGED <<tool_name, cleaned, recleaned, varsParams, varsChat, varsBind>>

\* lines 273-275
CleanDescription ==
    /\ cleaned = None
    /\ cleaned' = Some(_remove_signature_from_tool_description(
                           tool_name, Concat(description)))
    /\ UNCHANGED <<tool_name, description, recleaned, varsParams, varsChat, varsBind>>

\* the cleaned description is cleaned once more
CleanAgain ==
    /\ cleaned # None
    /\ recleaned = None
    /\ recleaned' = Some(_remove_signature_from_tool_description(
                             tool_name, cleaned[1]))
    /\ UNCHANGED <<tool_name, description, cleaned, varsParams, varsChat, varsBind>>

NextDesc == ComposeDescription \/ CleanDescription \/ CleanAgain

SpecDesc == InitDesc /\ [][NextDesc]_vars

----------------------------------------------------------------------------
(* Tool conversion and binding.  A tool value is a record tagged with the  *)
(* kind the isinstance chain of convert_to_oci_tool tells apart; names and *)
(* descriptions are sequences of characters.                               *)

\* lines 50-57
JSON_TO_PYTHON_TYPES ==
    [string |-> "str", number |-> "float", boolean |-> "bool",
     integer |-> "int", array |-> "List", object |-> "Dict"]

\* JSON_TO_PYTHON_TYPES.get(p_def.get("type"), p_def.get("type"))
python_type(p_def) ==
    IF "type" \in DOMAIN p_def
    THEN Some(Get(JSON_TO_PYTHON_TYPES, p_def["type"], p_def["type"]))
    ELSE None

\* dict.get(key) with the default None
GetOptional(d, k) == IF k \in DOMAIN d THEN Some(d[k]) ELSE None

oci_tool_param(desc, type, is_required) ==
    [description |-> desc, type |-> type, is_required |-> is_required]

oci_tool(name, desc, parameter_definitions) ==
    [name |-> name, description |-> desc,
     parameter_definitions |-> parameter_definitions]

Converted(t) == [err |-> "none", tool |-> Some(t), bound |-> None]

ConversionRaised(e) == [err |-> e, tool |-> None, bound |-> None]

\* langchain_core convert_to_openai_function: the name / description /
\* parameters structure of a schema class or a callable
convert_to_openai_function(tool) == tool.fn

\* lines 263-332
CohereProvider_convert_to_oci_tool(tool) ==
    IF tool.kind = "BaseTool" THEN
        Converted(oci_tool(
            Some(tool.name),
            Some(_remove_signature_from_tool_description(tool.name,
                                                         tool.description)),
            [p_name \in DOMAIN tool.args |->
                LET p_def == tool.args[p_name]
                IN  oci_tool_param(
                        IF "description" \in DOMAIN p_def
                        THEN Some(p_def["description"]) ELSE Some(""),
                        python_type(p_def),
                        "default" \notin DOMAIN p_def)]))
    ELSE IF tool.kind = "dict" THEN
        IF ~ ({"title", "description", "properties"} \subseteq DOMAIN tool.value)
        THEN ConversionRaised("ValueError")
        ELSE Converted(oci_tool(
                 GetOptional(tool.value, "title"),
                 GetOptional(tool.value, "description"),
                 [p_name \in DOMAIN tool.value["properties"] |->
                     LET p_def == tool.value["properties"][p_name]
                     IN  oci_tool_param(
                             GetOptional(p_def, "description"),
                             python_type(p_def),
                             "default" \notin DOMAIN p_def)]))
    ELSE IF tool.kind \in {"BaseModel", "callable"} THEN
        LET as_json_schema_function == convert_to_openai_function(tool)
            parameters == Get(as_json_schema_function, "parameters", EmptyDict)
            properties == Get(parameters, "properties", EmptyDict)
        IN  Converted(oci_tool(
                GetOptional(as_json_schema_function, "name"),
                IF "description" \in DOMAIN as_json_schema_function
                THEN Some(as_json_schema_function["description"])
                ELSE GetOptional(as_json_schema_function, "name"),
                [p_name \in DOMAIN properties |->
                    LET p_def == properties[p_name]
                    IN  oci_tool_param(
                            GetOptional(p_def, "description"),
                            python_type(p_def),
                            p_name \in Get(parameters, "required", {}))]))
    ELSE ConversionRaised("ValueError")

MetaProvider_convert_to_oci_tool_inherited(tool) ==
    CohereProvider_convert_to_oci_tool(tool)

\* lines 393-397
MetaProvider_convert_to_oci_tool(tool) ==
    ConversionRaised("NotImplementedError")

\* self._provider.convert_to_oci_tool(tool)
convert_to_oci_tool(prov, tool) ==
    IF prov = "cohere"
    THEN CohereProvider_convert_to_oci_tool(tool)
    ELSE MetaProvider_convert_to_oci_tool(tool)

\* line 535: the list comprehension; the first conversion that raises ends it
RECURSIVE formatted_tools(_, _, _)
formatted_tools(prov, tls, acc) ==
    IF tls = <<>> THEN [err |-> "none", tools |-> acc]
    ELSE LET c == convert_to_oci_tool(prov, Head(tls))
         IN  IF c.err # "none" THEN [err |-> c.err, tools |-> <<>>]
             ELSE formatted_tools(prov, Tail(tls), Append(acc, c.tool[1]))

\* lines 530-536: the runnable returned is the model bound to
\* {tools: formatted_tools, **kwargs}
bind_tools(prov, tls, kwargs) ==
    LET f == formatted_tools(prov, tls, <<>>)
    IN  IF f.err # "none" THEN ConversionRaised(f.err)
        ELSE [err |-> "none", tool |-> None,
              bound |-> Some(Merge([tools |-> f.tools], kwargs))]

----------------------------------------------------------------------------
(* Specification of tool binding: a caller puts a tool sequence together,  *)
(* converts single tools and binds the sequence to a chat model of either  *)
(* provider.                                                               *)

ToolInventory ==
    { [kind |-> "BaseTool", name |-> <<"f">>,
       description |-> <<"f", "(", ")", " ", "-", " ", "g">>,
       args |-> [x |-> [type |-> "string", description |-> "dx"],
                 y |-> [type |-> "custom", default |-> 0]]],
      [kind |-> "dict",
       value |-> [title |-> <<"g">>, description |-> <<"g">>,
                  properties |-> [x |-> [type |-> "integer"]]]],
      [kind |-> "dict",
       value |-> [title |-> <<"g">>, description |-> <<"g">>]],
      [kind |-> "callable",
       fn |-> [name |-> <<"f">>,
               parameters |-> [properties |-> [x |-> [type |-> "number"]],
                               required |-> {"x"}]]],
      [kind |-> "BaseModel",
       fn |-> [name |-> <<"g">>, description |-> <<"f">>]],
      [kind |-> "int"] }

BindKwargs == { EmptyDict, [tool_choice |-> "auto"] }

InitBind ==
    /\ NoParamsCall
    /\ DescIdle
    /\ BindIdle
    /\ provider \in Providers
    /\ is_stream = FALSE
    /\ model_kwargs = None
    /\ client = [text |-> <<>>, events |-> <<>>, tool_calls |-> <<>>]
    /\ ChatFresh

\* the caller appends one tool to the sequence
AddTool ==
    /\ Len(tools) < MaxTools
    /\ \E t \in ToolInventory : tools' = Append(tools, t)
    /\ bind_call' = NoBindCall
    /\ bind_result' = Unbound
    /\ UNCHANGED <<varsParams, varsChat, varsDesc>>

\* self._provider.convert_to_oci_tool(tool) on one tool
ConvertTool ==
    /\ \E t \in ToolInventory :
          /\ bind_call' = [op |-> "convert_to_oci_tool", tool |-> Some(t),
                           kwargs |-> EmptyDict]
          /\ bind_result' = convert_to_oci_tool(provider, t)
    /\ UNCHANGED <<tools, varsParams, varsChat, varsDesc>>

\* bind_tools(tools, **kwargs)
BindTools ==
    /\ \E kw \in BindKwargs :
          /\ bind_call' = [op |-> "bind_tools", tool |-> None, kwargs |-> kw]
          /\ bind_result' = bind_tools(provider, tools, kw)
    /\ UNCHANGED <<tools, varsParams, varsChat, varsDesc>>

NextBind == AddTool \/ ConvertTool \/ BindTools

SpecBind == InitBind /\ [][NextBind]_vars

----------------------------------------------------------------------------
(* Properties of tool binding *)

MetaConverted ==
    provider = "meta" /\ bind_call.op = "convert_to_oci_tool"

MetaBound == provider = "meta" /\ bind_call.op = "bind_tools"

ToolsUnsupported ==
    /\ bind_result.err = "NotImplementedError"
    /\ bind_result.tool = None
    /\ bind_result.bound = None

\* C11 as stated: against MetaProvider, convert_to_oci_tool raises for
\* every tool value and bind_tools fails for every tool sequence and
\* returns no bound runnable.
C11_AnySequence ==
    (MetaConverted \/ MetaBound) => ToolsUnsupported

\* C11 amended: against MetaProvider, convert_to_oci_tool raises for every
\* tool value and bind_tools fails, returning no bound runnable, for every
\* tool sequence that has at least one tool; for the empty sequence no
\* tool is converted and bind_tools returns the model bound to an empty
\* tool list and the kwargs.
C11_NonEmptySequence ==
    /\ MetaConverted => ToolsUnsupported
    /\ (MetaBound /\ tools # <<>>) => ToolsUnsupported
    /\ (MetaBound /\ tools = <<>>) =>
           /\ bind_result.err = "none"
           /\ bind_result.bound # None
           /\ bind_result.bound[1]["tools"] = <<>>
           /\ \A k \in DOMAIN bind_call.kwargs :
                  bind_result.bound[1][k] = bind_call.kwargs[k]

\* bind_tools against MetaProvider has failed on a sequence of two tools
\* that CohereProvider converts
C11_Witness ==
    /\ MetaBound
    /\ Len(tools) = 2
    /\ \A i \in 1..Len(tools) :
           CohereProvider_convert_to_oci_tool(tools[i]).err = "none"
    /\ ToolsUnsupported

----------------------------------------------------------------------------
(* Specification of the params builder: a caller grows a conversation and  *)
(* asks a provider for the request params.                                 *)

InitParams ==
    /\ NoParamsCall
    /\ ChatIdle
    /\ DescIdle
    /\ BindIdle

\* the caller appends one message to the conversation
AppendMessage ==
    /\ Len(messages) < MaxMsgs
    /\ \E m \in MessageInventory : messages' = Append(messages, m)
    /\ oci_result' = Uncalled
    /\ call_kwargs' = EmptyDict
    /\ call_provider' = "cohere"
    /\ UNCHANGED <<varsChat, varsDesc, varsBind>>

\* provider.messages_to_oci_params(messages, **kwargs)
CallParams ==
    /\ oci_result = Uncalled
    /\ \E p \in Providers, kw \in ParamKwargs :
          /\ call_provider' = p
          /\ call_kwargs' = kw
          /\ oci_result' = messages_to_oci_params(p, messages, kw)
    /\ UNCHANGED <<messages, varsChat, varsDesc, varsBind>>

NextParams == AppendMessage \/ CallParams

SpecParams == InitParams /\ [][NextParams]_vars

----------------------------------------------------------------------------
(* Properties of the params builder *)

CohereReturned == call_provider = "cohere" /\ oci_result.err = "none"

ToolResultsOf(params) == Get(params, "tool_results", <<>>)

ToolIdx(msgs) == {i \in 1..Len(msgs) : msgs[i].type = "tool"}

\* k-th tool-result message of the conversation, in chronological order
NthTool(msgs, k) ==
    CHOOSE i \in ToolIdx(msgs) : Cardinality({j \in ToolIdx(msgs) : j <= i}) = k

LastHumanIdx(msgs) ==
    IF \E i \in 1..Len(msgs) : msgs[i].type = "human"
    THEN CHOOSE i \in 1..Len(msgs) :
             /\ msgs[i].type = "human"
             /\ \A j \in (i + 1)..Len(msgs) : msgs[j].type # "human"
    ELSE 0

\* index of the message a run of tool-result messages directly follows
PrecIdx(msgs, i) ==
    IF \E j \in 1..(i - 1) : msgs[j].type # "tool"
    THEN CHOOSE j \in 1..(i - 1) :
             /\ msgs[j].type # "tool"
             /\ \A l \in (j + 1)..(i - 1) : msgs[l].type = "tool"
    ELSE 0

AnswersOf(msgs, j) == {i \in ToolIdx(msgs) : PrecIdx(msgs, i) = j}

CallIds(m) == {m.tool_calls[n].id : n \in 1..Len(m.tool_calls)}

\* the tool-result messages after assistant message j answer exactly its calls
MatchesExactly(msgs, j) ==
    /\ msgs[j].type = "ai"
    /\ {msgs[i].tool_call_id : i \in AnswersOf(msgs, j)} = CallIds(msgs[j])
    /\ Cardinality(AnswersOf(msgs, j)) = Len(msgs[j].tool_calls)

\* every tool-result message lies after the most recent human message and
\* answers the assistant message immediately before it, and every
\* tool-calling assistant message is answered exactly
AnswersPrecedingAssistant(msgs) ==
    /\ \A i \in ToolIdx(msgs) :
          /\ i > LastHumanIdx(msgs)
          /\ PrecIdx(msgs, i) > 0
          /\ MatchesExactly(msgs, PrecIdx(msgs, i))
    /\ \A j \in 1..Len(msgs) :
          IsToolCallingAI(msgs[j]) => MatchesExactly(msgs, j)

CallWithId(m, id) ==
    LET n == CHOOSE n \in 1..Len(m.tool_calls) : m.tool_calls[n].id = id
    IN  m.tool_calls[n]

\* one tool result per tool-result message, pairing call and content
OneResultPerToolMessage(msgs, results) ==
    /\ Len(results) = Cardinality(ToolIdx(msgs))
    /\ \A k \in 1..Len(results) :
          LET i == NthTool(msgs, k)
              tc == CallWithId(msgs[PrecIdx(msgs, i)], msgs[i].tool_call_id)
          IN  /\ results[k].call = [name |-> tc.name, parameters |-> tc.args]
              /\ results[k].outputs = << [output |-> msgs[i].content] >>

\* C1 as stated: N tool-result messages that answer the assistant message
\* immediately before them give exactly N paired tool results, for any
\* number of assistant/tool-result rounds after the last human message.
C1_AnyRounds ==
    (CohereReturned /\ AnswersPrecedingAssistant(messages))
        => OneResultPerToolMessage(messages, ToolResultsOf(oci_result.params))

LastToolCallingIdx(msgs) ==
    IF \E j \in 1..Len(msgs) : IsToolCallingAI(msgs[j])
    THEN CHOOSE j \in 1..Len(msgs) :
             /\ IsToolCallingAI(msgs[j])
             /\ \A l \in (j + 1)..Len(msgs) : ~IsToolCallingAI(msgs[l])
    ELSE 0

SingleRound(msgs) ==
    \A i \in ToolIdx(msgs) : PrecIdx(msgs, i) = LastToolCallingIdx(msgs)

\* C1 (amended): when the N tool-result messages all answer the most recent
\* tool-calling assistant message of the current turn (one round), the
\* params carry exactly N tool results, one per tool-result message in
\* order, each pairing the call's name and args with the message's content.
C1_SingleRound ==
    (CohereReturned /\ AnswersPrecedingAssistant(messages) /\ SingleRound(messages))
        => OneResultPerToolMessage(messages, ToolResultsOf(oci_result.params))

C1_Witness ==
    /\ CohereReturned
    /\ AnswersPrecedingAssistant(messages)
    /\ SingleRound(messages)
    /\ Cardinality(ToolIdx(messages)) = 2
    /\ Len(ToolResultsOf(oci_result.params)) = 2

ForcedSingleStep ==
    /\ "is_force_single_step" \in DOMAIN call_kwargs
    /\ call_kwargs["is_force_single_step"]

KeepsHistoryEntry(m) ==
    \/ m.type \in {"human", "system"}
    \/ m.type = "ai" /\ m.tool_calls = <<>>

HistorySources(msgs) == SelectSeq(SubSeq(msgs, 1, Len(msgs) - 1), KeepsHistoryEntry)

RoleName(type) ==
    CASE type = "human" -> "USER"
      [] type = "system" -> "SYSTEM"
      [] type = "ai" -> "CHATBOT"

\* C3: with is_force_single_step=true the chat history has no entry for an
\* assistant message with tool calls, and exactly one entry, in
\* chronological order, for every other non-final human, system and
\* assistant message.
C3_ForcedHistory ==
    (CohereReturned /\ ForcedSingleStep) =>
        LET hist == oci_result.params["chat_history"]
            src == HistorySources(messages)
        IN  /\ Len(hist) = Len(src)
            /\ \A j \in 1..Len(hist) :
                  /\ hist[j].role = RoleName(src[j].type)
                  /\ hist[j].message =
                         (IF src[j].type = "ai" /\ src[j].content = ""
                          THEN " " ELSE src[j].content)
                  /\ "tool_calls" \in DOMAIN hist[j] => hist[j].tool_calls = None

C3_Witness ==
    /\ CohereReturned
    /\ ForcedSingleStep
    /\ \E i \in 1..(Len(messages) - 1) : IsToolCallingAI(messages[i])
    /\ Len(oci_result.params["chat_history"]) = 2

UnknownTo(prov, m) ==
    IF prov = "cohere"
    THEN m.type \notin {"system", "human", "ai", "tool"}
    ELSE m.type \notin {"system", "human", "ai"}

Called == oci_result.err # "uncalled"

\* C8 as stated: an unrecognised message at any position, the last
\* included, makes the params call fail with the unknown-role error.
C8_AnyPosition ==
    (Called /\ \E i \in 1..Len(messages) : UnknownTo(call_provider, messages[i]))
        => (oci_result.err = "ValueError" /\ oci_result.params = EmptyDict)

\* positions whose role the provider maps: all but the last for variant A,
\* all for variant B
RoleMapped(prov, msgs) ==
    IF prov = "cohere" THEN 1..(Len(msgs) - 1) ELSE 1..Len(msgs)

\* C8 (amended): the params call fails with the unknown-role error and
\* returns no params exactly when an unrecognised message stands at a
\* position whose role the provider maps: any non-final position for
\* variant A, any position for variant B (so a tool-result message always
\* fails on variant B).
C8_MappedPositions ==
    Called =>
        ((oci_result.err = "ValueError")
            <=> \E i \in RoleMapped(call_provider, messages) :
                    UnknownTo(call_provider, messages[i]))
        /\ (oci_result.err = "ValueError" => oci_result.params = EmptyDict)

C8_Witness ==
    /\ call_provider = "cohere"
    /\ oci_result.err = "ValueError"
    /\ Len(messages) >= 2
    /\ messages[1].type = "chat"

\* first message of the current turn: the most recent human message, or
\* the first message when there is none
TurnStart(msgs) ==
    IF LastHumanIdx(msgs) > 0 THEN LastHumanIdx(msgs) ELSE 1

\* the most recent tool-calling assistant message of the current turn,
\* 0 when the turn has none
TurnToolCallingIdx(msgs) ==
    IF LastToolCallingIdx(msgs) >= TurnStart(msgs)
    THEN LastToolCallingIdx(msgs) ELSE 0

\* tool-result messages of the current turn that answer a call of that
\* assistant message
Contributing(msgs) ==
    {i \in ToolIdx(msgs) :
        /\ i >= TurnStart(msgs)
        /\ TurnToolCallingIdx(msgs) # 0
        /\ msgs[i].tool_call_id \in CallIds(msgs[TurnToolCallingIdx(msgs)])}

ProducesToolResult(msgs) == Contributing(msgs) # {}

RequiredKeys == {"message", "chat_history", "api_format"}

\* C12 as stated: the message field is empty exactly when a tool result
\* was produced and is otherwise the content of the last message; the
\* tool_results key is present exactly when a tool result was produced;
\* message, chat_history and api_format are always present.
C12_EmptyExactly ==
    CohereReturned =>
        LET params == oci_result.params
        IN  /\ RequiredKeys \subseteq DOMAIN params
            /\ ("tool_results" \in DOMAIN params) <=> ProducesToolResult(messages)
            /\ (params["message"] = "") <=> ProducesToolResult(messages)
            /\ ~ProducesToolResult(messages) =>
                   params["message"] = Last(messages).content

\* C12 amended: the message field is the empty string whenever a tool
\* result was produced and otherwise equals the content of the last
\* message, which may itself be the empty string; the tool_results key is
\* present, with a non-empty list, exactly when a tool result was
\* produced; message, chat_history and api_format are always present and
\* there is no other key.
C12_EmptyWhen ==
    CohereReturned =>
        LET params == oci_result.params
        IN  /\ RequiredKeys \subseteq DOMAIN params
            /\ DOMAIN params \subseteq RequiredKeys \cup {"tool_results"}
            /\ ("tool_results" \in DOMAIN params) <=> ProducesToolResult(messages)
            /\ "tool_results" \in DOMAIN params => params["tool_results"] # <<>>
            /\ ProducesToolResult(messages) => params["message"] = ""
            /\ ~ProducesToolResult(messages) =>
                   params["message"] = Last(messages).content

\* a tool result was produced for a conversation whose last message has
\* content, and the message field is empty
C12_Witness ==
    /\ CohereReturned
    /\ ProducesToolResult(messages)
    /\ Last(messages).content # ""
    /\ oci_result.params["message"] = ""
    /\ "tool_results" \in DOMAIN oci_result.params

NthOf(S, k) == CHOOSE i \in S : Cardinality({j \in S : j <= i}) = k

\* the tool results are those of the contributing messages, in order, each
\* pairing the answered call with the message's content
ResultsOfContributing(msgs, results) ==
    /\ Len(results) = Cardinality(Contributing(msgs))
    /\ \A k \in 1..Len(results) :
          LET i == NthOf(Contributing(msgs), k)
              tc == CallWithId(msgs[TurnToolCallingIdx(msgs)],
                               msgs[i].tool_call_id)
          IN  /\ results[k].call = [name |-> tc.name, parameters |-> tc.args]
              /\ results[k].outputs = << [output |-> msgs[i].content] >>

\* tool-result messages that lie before the current turn, or match no call
\* of its most recent tool-calling assistant message
Ignored(msgs) == ToolIdx(msgs) \ Contributing(msgs)

\* C13: only the current turn contributes tool results.  A tool-result
\* message of the current turn that matches no tool call of the turn's most
\* recent tool-calling assistant message, and a tool-result message before
\* the most recent human message, produce no tool-result object and no
\* error; the tool results of the other messages are what they are without
\* them.
C13_OnlyMatchedInTurn ==
    /\ CohereReturned =>
           ResultsOfContributing(messages, ToolResultsOf(oci_result.params))
    /\ (call_provider = "cohere" /\ Called /\ Ignored(messages) # {}) =>
           (oci_result.err = "none" <=>
                \A i \in 1..(Len(messages) - 1) : ~UnknownTo("cohere", messages[i]))

\* a current turn with one unmatched and one matched tool-result message
\* gave exactly the matched one's tool result
C13_Witness ==
    /\ CohereReturned
    /\ Cardinality(Contributing(messages)) = 1
    /\ \E i \in Ignored(messages) : i >= TurnStart(messages)
    /\ Len(ToolResultsOf(oci_result.params)) = 1

----------------------------------------------------------------------------
(* Properties of the chat model *)

StopKey == IF provider = "cohere" THEN "stop_sequences" ELSE "stop"

StreamFlag == call.op = "_stream" \/ is_stream

ConfiguredDict(mk) == IF mk = None THEN EmptyDict ELSE mk[1]

\* C2: calls share no state: model_kwargs keeps its construction value, the
\* request of a call is determined by the call's arguments and the
\* construction-time configuration, and a stop list of an earlier call does
\* not show up in the request of a call made with stop=None.
C2_NoSharedState ==
    /\ model_kwargs = init_model_kwargs
    /\ request # None =>
          /\ request[1] = _prepare_request(provider, init_model_kwargs,
                              call.messages, call.stop, StreamFlag,
                              call.kwargs).chat_params
          /\ (/\ call.stop = None
              /\ StopKey \notin DOMAIN call.kwargs
              /\ StopKey \notin DOMAIN ConfiguredDict(init_model_kwargs))
                 => StopKey \notin DOMAIN request[1]

\* the three layers of the merge, for the last call
ProviderLayer ==
    LET p == messages_to_oci_params(provider, call.messages, call.kwargs).params
    IN  [k \in DOMAIN p \cup {"is_force_single_step", "is_stream"} |->
            IF k = "is_stream" THEN StreamFlag
            ELSE IF k = "is_force_single_step"
                 THEN (k \in DOMAIN call.kwargs /\ call.kwargs[k])
                 ELSE p[k]]

ModelKwargsLayer ==
    LET d == ConfiguredDict(call.model_kwargs)
    IN  [k \in DOMAIN d \cup (IF call.stop # None THEN {StopKey} ELSE {}) |->
            IF call.stop # None /\ k = StopKey THEN call.stop[1] ELSE d[k]]

\* C7: in the merged chat params a key has the provider-params value if the
\* provider params (with the injected is_force_single_step and is_stream)
\* have it, else the caller-kwargs value if present, else the model-kwargs
\* value, the stop list counting as a model-kwargs entry under the
\* provider's stop-sequence key.
C7_MergePrecedence ==
    request # None =>
        /\ DOMAIN request[1] =
               DOMAIN ProviderLayer \cup DOMAIN call.kwargs \cup DOMAIN ModelKwargsLayer
        /\ \A k \in DOMAIN request[1] :
               request[1][k] =
                   IF k \in DOMAIN ProviderLayer THEN ProviderLayer[k]
                   ELSE IF k \in DOMAIN call.kwargs THEN call.kwargs[k]
                   ELSE ModelKwargsLayer[k]

C7_Witness ==
    /\ request # None
    /\ call.op = "_generate"
    /\ ~is_stream
    /\ provider = "cohere"
    /\ call.kwargs = [temperature |-> 5, is_stream |-> TRUE]
    /\ call.model_kwargs = Some([temperature |-> 7])
    /\ call.stop = Some(<< <<"b">> >>)
    /\ request[1]["is_stream"] = FALSE
    /\ request[1]["temperature"] = 5
    /\ request[1]["stop_sequences"] = << <<"b">> >>

Returned == call.op = "_generate" /\ result.err = "none"

TokenAt(text, tok, i) ==
    \A k \in 1..Len(tok) : i + k - 1 <= Len(text) /\ text[i + k - 1] = tok[k]

StopHit(text, stop) ==
    \E n \in 1..Len(stop), i \in 1..Len(text) : TokenAt(text, stop[n], i)

\* C5: without streaming, a supplied stop list cuts the backend text at the
\* first occurrence of any stop token (nothing is cut when none occurs), so
\* the content holds no stop token; with stop=None the text is unchanged.
C5_StopEnforced ==
    (Returned /\ ~is_stream) =>
        LET c == result.content
            t == client.text
        IN  IF call.stop = None THEN c = t
            ELSE LET stop == call.stop[1]
                 IN  /\ Len(c) <= Len(t)
                     /\ c = SubSeq(t, 1, Len(c))
                     /\ \A n \in 1..Len(stop), i \in 1..Len(c) :
                            ~TokenAt(t, stop[n], i)
                     /\ c # t => \E n \in 1..Len(stop) :
                                     TokenAt(t, stop[n], Len(c) + 1)
                     /\ ~StopHit(c, stop)

C5_Witness ==
    /\ Returned
    /\ ~is_stream
    /\ call.stop = Some(<< <<"b">> >>)
    /\ client.text = <<"a", "b", "a">>
    /\ result.content = <<"a">>

\* the stub's streamed deltas concatenate to its non-streaming text
ConsistentBackend == client.text = StubText(client.events)

\* what the same call returns on the other path of _generate
OtherPathContent ==
    IF is_stream
    THEN content_after_stop(chat_response_to_text(provider, client), call.stop)
    ELSE generate_from_stream(StreamDeltas(provider, client.events)).content

\* C4 as stated: with the same messages and stop list, present or absent,
\* the streaming and the non-streaming path of _generate return the same
\* content.
C4_AnyStopList ==
    (Returned /\ ConsistentBackend) => result.content = OtherPathContent

\* C4 (amended): the two paths return the same content when stop is None or
\* no stop token occurs in the backend text.
C4_NoStopHit ==
    (/\ Returned
     /\ ConsistentBackend
     /\ (call.stop = None \/ ~StopHit(client.text, call.stop[1])))
        => result.content = OtherPathContent

C4_Witness ==
    /\ Returned
    /\ is_stream
    /\ ConsistentBackend
    /\ call.stop = Some(<< <<"b", "b">> >>)
    /\ Len(client.events) = 3
    /\ result.content = <<"a", "b">>

Streaming ==
    /\ gen_pc \in {"loop", "notify", "yield", "suspended", "done"}
    /\ result.err # "ValueError"
    /\ result.err # "IndexError"

EventsRead == Len(client.events) - Len(gen_events)

\* C6: the stream yields one chunk per backend event, in order, each
\* carrying the event's delta (empty for an event without one); the
\* callback sink hears of a delta before its chunk is yielded; an event is
\* read only when the consumer has pulled for it; the stream ends with the
\* backend's events.
C6_ChunkPerEvent ==
    Streaming =>
        /\ EventsRead \in {Len(chunks), Len(chunks) + 1}
        /\ gen_pc \in {"suspended", "loop", "done"} => EventsRead = Len(chunks)
        /\ \A i \in 1..Len(chunks) :
               chunks[i] = BackendEventDelta(client.events[i])
        /\ call.run_manager =>
               /\ Len(callbacks) \in {Len(chunks), Len(chunks) + 1}
               /\ Len(callbacks) <= EventsRead
               /\ \A i \in 1..Len(callbacks) :
                      callbacks[i] = BackendEventDelta(client.events[i])
        /\ gen_pc = "done" => Len(chunks) = Len(client.events)

C6_Witness ==
    /\ call.op = "_stream"
    /\ call.run_manager
    /\ gen_pc = "done"
    /\ chunks = << <<"a">>, <<"b">>, <<>> >>
    /\ callbacks = chunks
    /\ Concat(chunks) = <<"a", "b">>

----------------------------------------------------------------------------
(* Properties of description cleaning *)

\* the text begins with `name(args) - ` or `name(args) -> type - `
HasLeadingSignature(name, d) ==
    /\ Len(d) > Len(name)
    /\ \A k \in 1..Len(name) : d[k] = name[k]
    /\ d[Len(name) + 1] = "("
    /\ \E j \in (Len(name) + 2)..Len(d) :
          /\ d[j] = ")"
          /\ \A k \in (Len(name) + 2)..(j - 1) : d[k] # "nl"
          /\ At(d, j + 1) = " "
          /\ At(d, j + 2) = "-"
          /\ \/ At(d, j + 3) = " "
             \/ /\ At(d, j + 3) = ">"
                /\ At(d, j + 4) = " "
                /\ \E e \in (j + 6)..Len(d) :
                      /\ \A k \in (j + 5)..(e - 1) : IsWord(d[k])
                      /\ d[e] = " "
                      /\ At(d, e + 1) = "-"
                      /\ At(d, e + 2) = " "

\* C10 as stated: cleaning twice gives the same as cleaning once, also when
\* the signature fragment occurs more than once at the front.
C10_Idempotent == recleaned # None => recleaned = cleaned

\* C10 (amended): cleaning twice gives the same as cleaning once exactly
\* when the once-cleaned description does not itself begin with a signature
\* fragment; one cleaning removes a single leading fragment.
C10_SingleSignature ==
    recleaned # None =>
        ((recleaned = cleaned) <=> ~HasLeadingSignature(tool_name, cleaned[1]))

C10_Witness ==
    /\ recleaned # None
    /\ recleaned = cleaned
    /\ cleaned[1] = <<"g">>
    /\ Len(description) = 3
    /\ description[1] = <<"f", "(", "g", ")", " ", "-", ">", " ", "g", " ", "-", " ">>
    /\ description[3] = <<"nl", "nl", " ", "Args:", "g">>

====
